---- MODULE Spec2Model ----
(***************************************************************************)
(* Model of pkg/cmd/kpt/recreate/recreate.go: Options.Run copies Dir to    *)
(* OutDir, walks OutDir with filepath.Walk and, for every regular file     *)
(* named "Kptfile", removes the directory holding it and runs              *)
(* "kpt pkg get <expression> <rel>" in OutDir.                             *)
(*                                                                         *)
(* The file system is one global map from clean absolute paths (strings)   *)
(* to nodes.  filepath.Walk is modelled with its explicit recursion stack: *)
(* a directory's names are read and sorted when the directory is entered,  *)
(* each name is lstat'ed only when its turn comes, and the callback runs   *)
(* in between, so the callback's RemoveAll and fetch change the tree the   *)
(* walk is still traversing.                                               *)
(*                                                                         *)
(* Faults of the environment that are modelled: ioutil.TempDir fails, the  *)
(* staging copy fails (leaving what it wrote), os.RemoveAll fails (leaving *)
(* the directory with any part of its content), the kpt command fails, a   *)
(* Kptfile is not YAML or lacks fields, and an entry the walk has listed   *)
(* is gone when the walk reaches it.  Symbolic links and files or          *)
(* directories the walk cannot read are not.                               *)
(*                                                                         *)
(* Spec is one run over the input trees of Init; SpecExpr one run over the *)
(* values a Kptfile's fields can take; SpecTwice a run followed by a       *)
(* second run on the tree the first produced; SpecLoop one run with an     *)
(* upstream package that holds a subpackage with its own upstream.  The    *)
(* walk's descent is cut at MaxDepth directories.                          *)
(***************************************************************************)
EXTENDS Naturals, Sequences, FiniteSets, TLC

VARIABLES
    fs,       \* the file system: path -> node
    Dir,      \* Options.Dir (absolute)
    OutDir,   \* Options.OutDir ("" = not configured)
    pc,       \* position inside Run: "stage", "root", "walk", "remove", "fetch", "done"
    stack,    \* recursion stack of filepath.Walk: frames [path, names]
    req,      \* the callback's locals once a Kptfile passed its checks
    err,      \* the error Run returns ("" = nil), meaningful when pc = "done"
    log,      \* history: failed lstats, manifests read, os.RemoveAll and
              \* CommandRunner calls, in order
    orig,     \* history: the file system at the start of Run
    staged    \* history: the file system right after the staging copy

vars == <<fs, Dir, OutDir, pc, stack, req, err, log, orig, staged>>

-----------------------------------------------------------------------------
(* Bounds *)

MaxManifests == 3   \* packages placed in the input tree
MaxDepth == 6       \* directories deep, from "/", that the walk may descend
MaxTokens == 2      \* pieces a repo URL or a directory is built from (SpecExpr)

-----------------------------------------------------------------------------
(* Strings: strings.HasSuffix, HasPrefix, TrimSuffix and byte order *)

pathSeparator == "/"

HasSuffix(s, suf) ==
    Len(s) >= Len(suf) /\ SubSeq(s, Len(s) - Len(suf) + 1, Len(s)) = suf

HasPrefix(s, pre) ==
    Len(s) >= Len(pre) /\ SubSeq(s, 1, Len(pre)) = pre

TrimSuffix(s, suf) ==
    IF HasSuffix(s, suf) THEN SubSeq(s, 1, Len(s) - Len(suf)) ELSE s

\* The characters that occur in names, in ASCII order.
OrdChars == "-./0123456789:@ABCDEFGHIJKLMNOPQRSTUVWXYZ_abcdefghijklmnopqrstuvwxyz"

Code(c) == CHOOSE i \in 1..Len(OrdChars) : SubSeq(OrdChars, i, i) = c

RECURSIVE StrLess(_, _)
\* a < b in Go's string order (byte-wise lexicographic), as sort.Strings uses
StrLess(a, b) ==
    IF b = "" THEN FALSE
    ELSE IF a = "" THEN TRUE
    ELSE LET ca == Code(SubSeq(a, 1, 1))
             cb == Code(SubSeq(b, 1, 1))
         IN  IF ca # cb THEN ca < cb
             ELSE StrLess(SubSeq(a, 2, Len(a)), SubSeq(b, 2, Len(b)))

RECURSIVE SortStrings(_)
SortStrings(S) ==
    IF S = {} THEN <<>>
    ELSE LET m == CHOOSE x \in S : \A y \in S \ {x} : StrLess(x, y)
         IN  <<m>> \o SortStrings(S \ {m})

-----------------------------------------------------------------------------
(* Paths: filepath.Split, Join, Clean, Rel *)

RECURSIVE LastSep(_, _)
\* the last index <= i of the separator in s, 0 if none
LastSep(s, i) ==
    IF i = 0 THEN 0
    ELSE IF SubSeq(s, i, i) = pathSeparator THEN i
    ELSE LastSep(s, i - 1)

\* filepath.Split: <<everything up to and including the last separator, the rest>>
Split(path) ==
    LET i == LastSep(path, Len(path))
    IN  <<SubSeq(path, 1, i), SubSeq(path, i + 1, Len(path))>>

\* filepath.Join of a clean directory path and a name
Join(path, name) == path \o pathSeparator \o name

\* filepath.Clean on the paths that occur here: only a trailing separator can
\* make them unclean
Clean(path) == TrimSuffix(path, pathSeparator)

\* the number of separators in a path
Depth(p) == Cardinality({i \in 1..Len(p) : SubSeq(p, i, i) = pathSeparator})

\* p is base or lies below it
Within(base, p) == p = base \/ HasPrefix(p, base \o pathSeparator)

\* (faulty variant: the target is not made relative)
Rel_Absolute(basepath, targpath) == Clean(targpath)

\* filepath.Rel(basepath, targpath) for a target inside the base, which is all
\* the walk produces (every visited path is the root joined with names)
Rel(basepath, targpath) ==
    LET base == Clean(basepath)
        targ == Clean(targpath)
    IN  IF targ = base THEN "."
        ELSE SubSeq(targ, Len(base) + 2, Len(targ))

-----------------------------------------------------------------------------
(* Nodes and manifests *)

Str(s) == [k |-> "str", v |-> s]
Absent == [k |-> "absent", v |-> ""]
NotString == [k |-> "other", v |-> ""]

\* a parsed Kptfile: upstream.git.repo / directory / commit
Manifest(repo, directory, commit) ==
    [yaml |-> TRUE, repo |-> repo, directory |-> directory, commit |-> commit, tag |-> ""]

\* a file that is not valid YAML
Garbage == [yaml |-> FALSE, repo |-> Absent, directory |-> Absent, commit |-> Absent, tag |-> ""]

\* any other file content, identified by a tag
Plain(tag) == [yaml |-> TRUE, repo |-> Absent, directory |-> Absent, commit |-> Absent, tag |-> tag]

DirNode == [kind |-> "dir", data |-> Plain("")]
FileNode(data) == [kind |-> "file", data |-> data]

\* unstructured.NestedString: <<value, error>>; an absent field is "" without error
NestedString(data, field) ==
    LET f == data[field]
    IN  IF f.k = "str" THEN <<f.v, FALSE>>
        ELSE IF f.k = "absent" THEN <<"", FALSE>>
        ELSE <<"", TRUE>>

-----------------------------------------------------------------------------
(* The callback's pure part: field checks and the fetch expression *)

\* (faulty variant: the trailing "/" is kept)
NormalizeURL_NoTrim(gitURL) ==
    IF ~HasSuffix(gitURL, ".git") THEN gitURL \o ".git" ELSE gitURL

\* lines 134-136: append ".git" unless present, dropping one trailing "/"
NormalizeURL(gitURL) ==
    IF ~HasSuffix(gitURL, ".git") THEN TrimSuffix(gitURL, "/") \o ".git" ELSE gitURL

\* lines 137-139: prepend the separator unless present
NormalizeDir(directory) ==
    IF ~HasPrefix(directory, pathSeparator) THEN pathSeparator \o directory ELSE directory

\* line 141: fmt.Sprintf("%s%s@%s", gitURL, directory, version)
Expression(gitURL, directory, version) ==
    NormalizeURL(gitURL) \o NormalizeDir(directory) \o "@" \o version

\* (faulty variant: the directory is not checked)
CheckManifest_NoDirectory(data) ==
    LET r == NestedString(data, "repo")
        c == NestedString(data, "commit")
    IN  IF ~data.yaml THEN "failed to parse URL"
        ELSE IF r[2] THEN "failed to find git URL"
        ELSE IF r[1] = "" THEN "no git URL"
        ELSE IF c[2] THEN "failed to find git commit"
        ELSE IF c[1] = "" THEN "no git version"
        ELSE ""

\* (faulty variant: the commit is checked before the directory)
CheckManifest_CommitFirst(data) ==
    LET r == NestedString(data, "repo")
        d == NestedString(data, "directory")
        c == NestedString(data, "commit")
    IN  IF ~data.yaml THEN "failed to parse URL"
        ELSE IF r[2] THEN "failed to find git URL"
        ELSE IF r[1] = "" THEN "no git URL"
        ELSE IF c[2] THEN "failed to find git commit"
        ELSE IF c[1] = "" THEN "no git version"
        ELSE IF d[2] THEN "failed to find git directory"
        ELSE IF d[1] = "" THEN "no git directory"
        ELSE ""

\* lines 103-132: the error the callback returns for a Kptfile's content, "" if none
CheckManifest(data) ==
    LET r == NestedString(data, "repo")
        d == NestedString(data, "directory")
        c == NestedString(data, "commit")
    IN  IF ~data.yaml THEN "failed to parse URL"
        ELSE IF r[2] THEN "failed to find git URL"
        ELSE IF r[1] = "" THEN "no git URL"
        ELSE IF d[2] THEN "failed to find git directory"
        ELSE IF d[1] = "" THEN "no git directory"
        ELSE IF c[2] THEN "failed to find git commit"
        ELSE IF c[1] = "" THEN "no git version"
        ELSE ""

\* (faulty variant: the directory removed is parentDir of lines 99-100, one level up)
Request_ParentDir(dir, path) ==
    LET kptDir == TrimSuffix(Split(path)[1], pathSeparator)
        parentDir == TrimSuffix(Split(kptDir)[1], pathSeparator)
        data == fs[path].data
        expression == Expression(NestedString(data, "repo")[1],
                                 NestedString(data, "directory")[1],
                                 NestedString(data, "commit")[1])
        rel == Rel(dir, kptDir)
    IN  [path |-> path,
         kptDir |-> parentDir,
         rel |-> rel,
         expression |-> expression,
         name |-> "kpt",
         args |-> <<"pkg", "get", expression, rel>>,
         cdir |-> dir]

\* lines 90-147: the locals of the callback for the manifest file at path
Request(dir, path) ==
    LET kptDir == Split(path)[1]
        data == fs[path].data
        expression == Expression(NestedString(data, "repo")[1],
                                 NestedString(data, "directory")[1],
                                 NestedString(data, "commit")[1])
        rel == Rel(dir, kptDir)
    IN  [path |-> path,
         kptDir |-> TrimSuffix(kptDir, pathSeparator),
         rel |-> rel,
         expression |-> expression,
         name |-> "kpt",
         args |-> <<"pkg", "get", expression, rel>>,
         cdir |-> dir]

NoReq == [path |-> "", kptDir |-> "", rel |-> "", expression |-> "",
          name |-> "", args |-> <<>>, cdir |-> ""]

-----------------------------------------------------------------------------
(* The collaborators: the upstream packages kpt can fetch, and the file      *)
(* system primitives                                                         *)

RepoURL == "https://example.com/repo"
MPkg == Manifest(Str(RepoURL), Str("/pkg"), Str("v1.2.3"))
MNest == Manifest(Str(RepoURL \o ".git"), Str("nest"), Str("v1"))

ExprPkg == "https://example.com/repo.git/pkg@v1.2.3"
ExprNest == "https://example.com/repo.git/nest@v1"

MLoop == Manifest(Str(RepoURL), Str("loop"), Str("v1"))
ExprLoop == "https://example.com/repo.git/loop@v1"

\* The content a fetch of an expression produces, as a map from the path below
\* the destination to the node.  The package "nest" holds a subpackage in c;
\* the package "loop" holds in x a subpackage whose upstream is "loop" itself.
Upstream(expression) ==
    IF expression = ExprPkg THEN
        ("" :> DirNode) @@ ("/Kptfile" :> FileNode(MPkg)) @@ ("/cfg" :> FileNode(Plain("pkg")))
    ELSE IF expression = ExprLoop THEN
        ("" :> DirNode) @@ ("/Kptfile" :> FileNode(MLoop))
        @@ ("/x" :> DirNode) @@ ("/x/Kptfile" :> FileNode(MLoop))
        @@ ("/x/x" :> DirNode)
    ELSE
        ("" :> DirNode) @@ ("/Kptfile" :> FileNode(MNest)) @@ ("/cfg" :> FileNode(Plain("nest")))
        @@ ("/c" :> DirNode) @@ ("/c/Kptfile" :> FileNode(MPkg))
        @@ ("/c/cfg" :> FileNode(Plain("nest-c")))

Fetchable(expression) == expression \in {ExprPkg, ExprNest, ExprLoop}

\* a tree (map from suffix to node) placed at path dst, over what is there
Graft(f, dst, tree) ==
    LET new == {dst \o sfx : sfx \in DOMAIN tree}
    IN  [p \in DOMAIN f \cup new |->
            IF p \in new THEN tree[SubSeq(p, Len(dst) + 1, Len(p))] ELSE f[p]]

\* the tree at path src of f, as a map from suffix to node
TreeAt(f, src) ==
    LET sub == {p \in DOMAIN f : Within(src, p)}
    IN  [sfx \in {SubSeq(p, Len(src) + 1, Len(p)) : p \in sub} |-> f[src \o sfx]]

\* util.CopyDirOverwrite(src, dst): every entry of src written at dst, entries
\* of dst that src lacks left alone
CopyDirOverwrite(f, src, dst) == Graft(f, dst, TreeAt(f, src))

\* (faulty variant: nothing is removed)
RemoveAll_Nothing(f, path) == f

\* os.RemoveAll(path): path and everything below it is gone
RemoveAll(f, path) ==
    [p \in {q \in DOMAIN f : ~Within(path, q)} |-> f[p]]

\* readDirNames(path): the names in the directory, sorted
readDirNames(f, path) ==
    LET pre == path \o pathSeparator
        kids == {p \in DOMAIN f : HasPrefix(p, pre) /\ LastSep(p, Len(p)) = Len(pre)}
    IN  SortStrings({SubSeq(p, Len(pre) + 1, Len(p)) : p \in kids})

\* the entries of the tree at path in the order a copy writes them: a
\* directory, then its names in order, each subdirectory in full
RECURSIVE CopyOrder(_, _), CopyNames(_, _, _)
CopyOrder(f, path) ==
    IF f[path].kind = "dir" THEN <<path>> \o CopyNames(f, path, readDirNames(f, path))
    ELSE <<path>>

CopyNames(f, path, names) ==
    IF names = <<>> THEN <<>>
    ELSE CopyOrder(f, Join(path, Head(names))) \o CopyNames(f, path, Tail(names))

\* util.CopyDirOverwrite(src, dst) that fails: it stops at the first entry it
\* cannot write and leaves what it wrote before
CopyDirPartly(f, src, dst) ==
    LET order == CopyOrder(f, src)
        tree == TreeAt(f, src)
        done(k) == {SubSeq(order[i], Len(src) + 1, Len(order[i])) : i \in 1..k}
    IN  {Graft(f, dst, [sfx \in done(k) |-> tree[sfx]]) : k \in 0..Len(order)}

\* What a failed os.RemoveAll can leave below a directory that stays: of
\* each name, nothing, the file, or the directory with what it leaves below
RECURSIVE KeepSets(_, _), KeepAmong(_, _, _)
KeepSets(f, dir) == KeepAmong(f, dir, readDirNames(f, dir))

KeepAmong(f, dir, names) ==
    IF names = <<>> THEN {{}}
    ELSE LET c == Join(dir, Head(names))
             own == IF f[c].kind = "dir"
                    THEN {{}} \cup {{c} \cup k : k \in KeepSets(f, c)}
                    ELSE {{}, {c}}
         IN  {a \cup b : a \in own, b \in KeepAmong(f, dir, Tail(names))}

\* os.RemoveAll(path) that fails: it removes what it can; path stays, with
\* any of its entries that could not be removed (none, some or all)
RemoveAllFailed(f, path) ==
    {[p \in {q \in DOMAIN f : q = path \/ ~Within(path, q)} \cup K |-> f[p]] :
        K \in KeepSets(f, path)}

-----------------------------------------------------------------------------
(* The inputs: an input tree with packages at some of the places Slots, and  *)
(* the ways --dir and --out-dir can relate                                   *)

Slots == {"", "/A", "/b", "/b/A", "/b/c", "/c"}

\* The complete manifests a slot can hold.  The package nest, which brings a
\* subpackage c, is tried where the input can hold an entry c beside it.
GoodAt(s) == IF s \in {"", "/b"} THEN {MPkg, MNest} ELSE {MPkg}

BadData ==
    { Manifest(Absent, Str("/pkg"), Str("v1.2.3")),       \* no repo
      Manifest(Str(RepoURL), Absent, Str("v1.2.3")),      \* no directory
      Manifest(Str(RepoURL), Str(""), Str("v1.2.3")),     \* empty directory
      Manifest(Str(RepoURL), Str("/pkg"), Absent),        \* no commit
      Manifest(Absent, Str("/pkg"), Absent),              \* no repo, no commit
      Manifest(NotString, Str("/pkg"), Str("v1.2.3")),    \* repo is not a string
      Garbage }                                           \* not YAML

\* What stands at a slot: a package whose Kptfile holds data, or a decoy: a
\* directory named Kptfile and a file named kptfile.
Choices ==
    [decoy : {FALSE}, data : {MPkg, MNest} \cup BadData] \cup [decoy : {TRUE}, data : {MPkg}]

IsBad(c) == c.decoy \/ c.data \in BadData

SlotTree(s, c) ==
    IF c.decoy THEN
        (s :> DirNode) @@ ((s \o "/Kptfile") :> DirNode)
        @@ ((s \o "/Kptfile/cfg") :> FileNode(Plain("local")))
        @@ ((s \o "/kptfile") :> FileNode(c.data))
    ELSE
        (s :> DirNode) @@ ((s \o "/Kptfile") :> FileNode(c.data))
        @@ ((s \o "/cfg") :> FileNode(Plain("local")))

\* the directories above a slot, the root "" included
Ancestors(s) ==
    {SubSeq(s, 1, i) : i \in {j \in 0..Len(s) : j < Len(s) /\ SubSeq(s, j + 1, j + 1) = "/"}}
    \cup {""}

InputTree(assign) ==
    LET own == UNION {DOMAIN SlotTree(s, assign[s]) : s \in DOMAIN assign}
        dirs == UNION {Ancestors(s) : s \in DOMAIN assign} \cup {""}
        at(p) == CHOOSE s \in DOMAIN assign : p \in DOMAIN SlotTree(s, assign[s])
    IN  [p \in own \cup dirs |->
            IF p \in own THEN SlotTree(at(p), assign[at(p)])[p] ELSE DirNode]

InDir == "/w/in"
TempDirName == "/tmp/k"

\* --out-dir: not given, a separate directory, the input directory itself, or
\* the directory that holds the input directory
OutDirs == {"", "/out", InDir, "/w"}

\* Up to MaxManifests slots are taken, at most one of them by a malformed
\* manifest or a decoy (Run ends at the first malformed manifest it meets).
\* A package at the root comes with at most one other slot.
Init ==
    /\ OutDir \in OutDirs
    /\ \E S \in SUBSET Slots :
      /\ Cardinality(S) <= MaxManifests
      /\ "" \in S => \E s \in Slots : S \subseteq {"", s}
      /\ \E assign \in [S -> Choices] :
           /\ {s \in S : IsBad(assign[s])} \in {{}} \cup {{s} : s \in S}
           /\ \A s \in S : ~IsBad(assign[s]) => assign[s].data \in GoodAt(s)
           /\ fs = Graft(("/w" :> DirNode), InDir, InputTree(assign))
    /\ Dir = InDir
    /\ pc = "stage"
    /\ stack = <<>>
    /\ req = NoReq
    /\ err = ""
    /\ log = <<>>
    /\ orig = fs
    /\ staged = fs

\* A second family of inputs, for the fetch expression: one package whose
\* Kptfile holds a repo, a directory and a commit built from few pieces, with
\* and without the suffix and separators the callback looks for.
RECURSIVE Words(_, _)
Words(tokens, n) ==
    IF n = 0 THEN {""}
    ELSE LET W == Words(tokens, n - 1)
         IN  W \cup {w \o t : w \in W, t \in tokens}

URLs == {b \o w : b \in {"", "r", RepoURL}, w \in Words({"/", ".git"}, MaxTokens)}
SubDirs == Words({"/", "pkg"}, MaxTokens)
Commits == {"", "v1", "v1.2.3"}

\* a field of the Kptfile: a string of S, or no such field
Field(S) == {Str(x) : x \in S} \cup {Absent}

InitExpr ==
    /\ \E u \in Field(URLs), d \in Field(SubDirs), c \in Field(Commits) :
         fs = Graft(("/w" :> DirNode), InDir,
                    ("/b/mod" :> FileNode(Plain("local")))
                    @@ InputTree(("/b" :> [decoy |-> FALSE,
                                           data |-> Manifest(u, d, c)])))
    /\ Dir = InDir
    /\ OutDir = "/out"
    /\ pc = "stage"
    /\ stack = <<>>
    /\ req = NoReq
    /\ err = ""
    /\ log = <<>>
    /\ orig = fs
    /\ staged = fs

\* An input whose package b has the upstream "loop" and a directory x, next
\* to at most one other package or decoy at A.
LoopTree ==
    ("/b" :> DirNode) @@ ("/b/Kptfile" :> FileNode(MLoop))
    @@ ("/b/mod" :> FileNode(Plain("local"))) @@ ("/b/x" :> DirNode)

InitLoop ==
    /\ \E S \in SUBSET {"/A"} : \E assign \in [S -> Choices] : \E loop \in BOOLEAN :
         fs = Graft(("/w" :> DirNode), InDir,
                    IF loop THEN LoopTree @@ InputTree(assign) ELSE InputTree(assign))
    /\ Dir = InDir
    /\ OutDir = "/out"
    /\ pc = "stage"
    /\ stack = <<>>
    /\ req = NoReq
    /\ err = ""
    /\ log = <<>>
    /\ orig = fs
    /\ staged = fs

-----------------------------------------------------------------------------
(* Run, step by step *)

Return(e) ==
    /\ pc' = "done"
    /\ err' = e
    /\ stack' = <<>>
    /\ req' = NoReq

\* lines 62-84: the output directory is chosen (a fresh empty temporary
\* directory when none is configured) and Dir is copied over it
Stage ==
    /\ pc = "stage"
    /\ LET out == IF OutDir = "" THEN TempDirName ELSE OutDir
           f0 == IF OutDir = "" THEN Graft(fs, TempDirName, ("" :> DirNode)) ELSE fs
       IN  /\ OutDir' = out
           /\ fs' = CopyDirOverwrite(f0, Dir, out)
    /\ staged' = fs'
    /\ pc' = "root"
    /\ UNCHANGED <<Dir, stack, req, err, log, orig>>

\* lines 70-83: ioutil.TempDir fails, or the output directory is there and
\* the copy fails, leaving what it had written
StageFail ==
    /\ pc = "stage"
    /\ \/ /\ OutDir = ""
          /\ Return("failed to create temp dir")
          /\ UNCHANGED <<fs, OutDir>>
       \/ LET out == IF OutDir = "" THEN TempDirName ELSE OutDir
              f0 == IF OutDir = "" THEN Graft(fs, TempDirName, ("" :> DirNode)) ELSE fs
          IN  /\ OutDir' = out
              /\ fs' \in CopyDirPartly(f0, Dir, out)
              /\ Return("failed to copy")
    /\ UNCHANGED <<Dir, log, orig, staged>>

\* history records
StatEvent(path) ==
    [ev |-> "stat", path |-> path, ok |-> FALSE, err |-> "", data |-> Plain(""), req |-> NoReq]
ManifestEvent(path, r) ==
    [ev |-> "manifest", path |-> path, ok |-> CheckManifest(fs[path].data) = "",
     err |-> CheckManifest(fs[path].data), data |-> fs[path].data, req |-> r]

\* (faulty variant: line 84 is missing and dir stays the input directory)
WalkDir_Input == Dir

\* line 84: dir = o.OutDir, the root of the walk and the commands' directory
WalkDir == OutDir

\* line 86, filepath.Walk: lstat of the root.  On failure the callback gets a
\* nil info and returns nil (line 87-88), so Walk and Run return nil.
WalkRoot ==
    /\ pc = "root"
    /\ IF WalkDir \notin DOMAIN fs
       THEN /\ Return("")
            /\ log' = Append(log, StatEvent(WalkDir))
       ELSE /\ stack' = <<[path |-> WalkDir, names |-> readDirNames(fs, WalkDir)]>>
            /\ pc' = "walk"
            /\ UNCHANGED <<req, err, log>>
    /\ UNCHANGED <<fs, Dir, OutDir, orig, staged>>

top == stack[Len(stack)]
filename == Join(top.path, Head(top.names))
advanced == [stack EXCEPT ![Len(stack)].names = Tail(@)]

Visiting ==
    /\ pc = "walk"
    /\ stack # <<>>
    /\ top.names # <<>>

\* walk: lstat(filename) fails; the callback is called with a nil info and
\* returns nil (lines 87-88); the walk goes on with the next name
StatFail ==
    /\ Visiting
    /\ filename \notin DOMAIN fs
    /\ stack' = advanced
    /\ log' = Append(log, StatEvent(filename))
    /\ UNCHANGED <<fs, Dir, OutDir, pc, req, err, orig, staged>>

\* walk: a directory; its names are read, the callback returns nil for it
\* (lines 87-88) and the walk descends
EnterDir ==
    /\ Visiting
    /\ filename \in DOMAIN fs
    /\ fs[filename].kind = "dir"
    /\ Depth(filename) <= MaxDepth
    /\ stack' = Append(advanced, [path |-> filename, names |-> readDirNames(fs, filename)])
    /\ UNCHANGED <<fs, Dir, OutDir, pc, req, err, log, orig, staged>>

IsManifestName(name) == name = "Kptfile"

\* lines 90-93: a file that is not named Kptfile
SkipFile ==
    /\ Visiting
    /\ filename \in DOMAIN fs
    /\ fs[filename].kind = "file"
    /\ ~IsManifestName(Split(filename)[2])
    /\ stack' = advanced
    /\ UNCHANGED <<fs, Dir, OutDir, pc, req, err, log, orig, staged>>

IsManifest ==
    /\ Visiting
    /\ filename \in DOMAIN fs
    /\ fs[filename].kind = "file"
    /\ IsManifestName(Split(filename)[2])

\* lines 103-132: the Kptfile cannot be parsed or lacks a field: the callback
\* returns the error, Walk stops and Run returns it
Reject ==
    /\ IsManifest
    /\ CheckManifest(fs[filename].data) # ""
    /\ log' = Append(log, ManifestEvent(filename, NoReq))
    /\ Return(CheckManifest(fs[filename].data))
    /\ UNCHANGED <<fs, Dir, OutDir, orig, staged>>

\* lines 94-147: the Kptfile is complete: the command is built
Plan ==
    /\ IsManifest
    /\ CheckManifest(fs[filename].data) = ""
    /\ log' = Append(log, ManifestEvent(filename, Request(WalkDir, filename)))
    /\ req' = Request(WalkDir, filename)
    /\ stack' = advanced
    /\ pc' = "remove"
    /\ UNCHANGED <<fs, Dir, OutDir, err, orig, staged>>

RemoveEvent(ok) ==
    [ev |-> "remove", path |-> req.kptDir, ok |-> ok, err |-> "", data |-> Plain(""), req |-> req]
FetchEvent(ok) ==
    [ev |-> "fetch", path |-> req.kptDir, ok |-> ok, err |-> "", data |-> Plain(""), req |-> req]

\* line 149: os.RemoveAll(kptDir) succeeds
Remove ==
    /\ pc = "remove"
    /\ fs' = RemoveAll(fs, req.kptDir)
    /\ log' = Append(log, RemoveEvent(TRUE))
    /\ pc' = "fetch"
    /\ UNCHANGED <<Dir, OutDir, stack, req, err, orig, staged>>

\* lines 149-152: os.RemoveAll(kptDir) fails, having removed what it could
RemoveFail ==
    /\ pc = "remove"
    /\ fs' \in RemoveAllFailed(fs, req.kptDir)
    /\ log' = Append(log, RemoveEvent(FALSE))
    /\ Return("failed to remove kpt directory")
    /\ UNCHANGED <<Dir, OutDir, orig, staged>>

\* (faulty variant: the package is put in the working directory itself)
Destination_WorkDir(r) == r.cdir

\* where "kpt pkg get expression rel", run in cdir, puts the package
Destination(r) == IF r.rel = "." THEN r.cdir ELSE Join(r.cdir, r.rel)

\* lines 153-159: the command runs (it needs its working directory) and the
\* package appears at the destination
Fetch ==
    /\ pc = "fetch"
    /\ req.cdir \in DOMAIN fs
    /\ Fetchable(req.expression)
    /\ fs' = Graft(fs, Destination(req), Upstream(req.expression))
    /\ log' = Append(log, FetchEvent(TRUE))
    /\ req' = NoReq
    /\ pc' = "walk"
    /\ UNCHANGED <<Dir, OutDir, stack, err, orig, staged>>

\* (faulty variant: a failed command is logged and the walk goes on)
FetchFail_Continue ==
    /\ pc = "fetch"
    /\ log' = Append(log, FetchEvent(FALSE))
    /\ req' = NoReq
    /\ pc' = "walk"
    /\ UNCHANGED <<fs, Dir, OutDir, stack, err, orig, staged>>

\* lines 154-158: the command fails
FetchFail ==
    /\ pc = "fetch"
    /\ log' = Append(log, FetchEvent(FALSE))
    /\ Return("failed to run kpt command")
    /\ UNCHANGED <<fs, Dir, OutDir, orig, staged>>

\* walk: the names of a directory are exhausted; walk returns to its caller
LeaveDir ==
    /\ pc = "walk"
    /\ Len(stack) > 1
    /\ top.names = <<>>
    /\ stack' = SubSeq(stack, 1, Len(stack) - 1)
    /\ UNCHANGED <<fs, Dir, OutDir, pc, req, err, log, orig, staged>>

\* lines 160-164: the walk of the root returns nil and so does Run
Finish ==
    /\ pc = "walk"
    /\ Len(stack) = 1
    /\ top.names = <<>>
    /\ Return("")
    /\ UNCHANGED <<fs, Dir, OutDir, log, orig, staged>>

Next ==
    \/ Stage
    \/ StageFail
    \/ WalkRoot
    \/ StatFail
    \/ EnterDir
    \/ SkipFile
    \/ Reject
    \/ Plan
    \/ Remove
    \/ RemoveFail
    \/ Fetch
    \/ FetchFail
    \/ LeaveDir
    \/ Finish

Spec == Init /\ [][Next]_vars

SpecExpr == InitExpr /\ [][Next]_vars

SpecLoop == InitLoop /\ [][Next]_vars

\* the directory given as --out-dir to a second invocation
RerunOutDir == "/out2"

RunEvent ==
    [ev |-> "run", path |-> OutDir, ok |-> TRUE, err |-> "", data |-> Plain(""), req |-> NoReq]

\* lines 50-56: the command is invoked once more after a successful run, with
\* --dir the tree that run produced and a fresh --out-dir
Rerun ==
    /\ pc = "done"
    /\ err = ""
    /\ \A i \in 1..Len(log) : log[i].ev # "run"
    /\ Dir' = OutDir
    /\ OutDir' = RerunOutDir
    /\ pc' = "stage"
    /\ orig' = fs
    /\ staged' = fs
    /\ log' = Append(log, RunEvent)
    /\ UNCHANGED <<fs, stack, req, err>>

NextTwice ==
    \/ Next
    \/ Rerun

SpecTwice == Init /\ [][NextTwice]_vars

-----------------------------------------------------------------------------
(* Vocabulary of the properties *)

Done == pc = "done"
Success == pc = "done" /\ err = ""
Failed == pc = "done" /\ err # ""

Events(kind) == {i \in 1..Len(log) : log[i].ev = kind}
Fetched == {i \in Events("fetch") : log[i].ok}

\* one directory is the other or lies inside it
Nested(a, b) == Within(a, b) \/ Within(b, a)

\* the directory of the i-th event's package holds what its fetch produced
HoldsFetch(i) ==
    /\ log[i].path \in DOMAIN fs
    /\ TreeAt(fs, log[i].path) = Upstream(log[i].req.expression)

\* the i-th fetch is of a package nested with no other package fetched in the run
Standalone(i) == \A j \in Fetched \ {i} : ~Nested(log[i].path, log[j].path)

-----------------------------------------------------------------------------
(* C1 *)

\* C1 (as claimed): when Run has returned success, every directory whose
\* Kptfile was processed holds exactly the content its own fetch produced,
\* nested packages included.
C1_AllRecreated == Success => \A i \in Fetched : HoldsFetch(i)

\* C1 (amended): when Run has returned success, every processed package whose
\* directory neither contains nor lies inside the directory of another
\* processed package holds exactly the content its own fetch produced.
C1_StandaloneRecreated == Success => \A i \in Fetched : Standalone(i) => HoldsFetch(i)

C1_Witness ==
    /\ Success
    /\ Cardinality(Fetched) >= 2
    /\ \E i \in Fetched : Standalone(i) /\ HoldsFetch(i)
    /\ \E i \in Fetched : ~Standalone(i)

-----------------------------------------------------------------------------
(* C2, C3 *)

\* the directory that holds the file at path
DirOf(path) == TrimSuffix(Split(path)[1], pathSeparator)

\* the regular files named Kptfile in the staged tree, as the copy left it
StagedManifests ==
    {p \in DOMAIN staged :
        /\ Within(WalkDir, p)
        /\ staged[p].kind = "file"
        /\ Split(p)[2] = "Kptfile"}

ProcessedPaths == {log[i].path : i \in Events("manifest")}

\* no staged package lies inside another
Flat == \A p, q \in StagedManifests : p # q => ~Nested(DirOf(p), DirOf(q))

\* the directory is as the staging copy left it
Untouched(d) == d \in DOMAIN fs /\ TreeAt(fs, d) = TreeAt(staged, d)

\* the directory and everything below it is gone
Deleted(d) == \A p \in DOMAIN fs : ~Within(d, p)

\* Run has returned after the fetch of the second of three staged manifests failed
C2_Case ==
    /\ Failed
    /\ Cardinality(StagedManifests) = 3
    /\ Cardinality(Events("manifest")) = 2
    /\ ProcessedPaths \subseteq StagedManifests
    /\ Cardinality(Events("fetch")) = 2
    /\ Cardinality(Fetched) = 1

C2_Contained ==
    LET f1 == CHOOSE i \in Fetched : TRUE
        f2 == CHOOSE i \in Events("fetch") \ Fetched : TRUE
        m3 == CHOOSE p \in StagedManifests \ ProcessedPaths : TRUE
    IN  /\ f1 < f2
        /\ HoldsFetch(f1)
        /\ Deleted(log[f2].path)
        /\ Untouched(DirOf(m3))

\* C2 (as claimed): in every staged tree with three manifests, when the fetch
\* of the second fails, the first directory holds its fetched content, the
\* second is deleted and the third is as the staging copy left it.
C2_FaultContainment == C2_Case => C2_Contained

\* C2 (amended): the same, for staged trees in which none of the three
\* manifests' directories lies inside another's.
C2_FaultContainmentFlat == (C2_Case /\ Flat) => C2_Contained

C2_Witness == C2_Case /\ Flat /\ C2_Contained

Unprocessed == StagedManifests \ ProcessedPaths

C3_Bounded ==
    /\ Cardinality({p \in StagedManifests : DirOf(p) \notin DOMAIN fs}) <= 1
    /\ \A p \in Unprocessed : Untouched(DirOf(p))

\* C3 (as claimed): in every state of a run after the staging copy, at most
\* one staged package's directory is deleted and not refetched, and every
\* package whose manifest has not been processed is as the copy left it.
C3_BlastRadius == pc # "stage" => C3_Bounded

\* C3 (amended): the same, for staged trees in which no manifest's directory
\* lies inside another's.
C3_BlastRadiusFlat == (pc # "stage" /\ Flat) => C3_Bounded

\* a package deleted and not yet refetched, one recreated before it and one
\* still waiting, untouched
C3_Witness ==
    /\ pc = "fetch"
    /\ Flat
    /\ req.kptDir \notin DOMAIN fs
    /\ Cardinality({p \in StagedManifests : DirOf(p) \notin DOMAIN fs}) = 1
    /\ Fetched # {}
    /\ \E p \in Unprocessed : Untouched(DirOf(p))

-----------------------------------------------------------------------------
(* C4 *)

Calls == Events("remove") \cup Events("fetch")

C4_Framed ==
    /\ TreeAt(fs, Dir) = TreeAt(staged, Dir)
    /\ \A i \in Calls :
         /\ Within(OutDir, log[i].path)
         /\ Within(OutDir, Destination(log[i].req))

\* C4 (as claimed): whenever OutDir differs from Dir, after the staging copy
\* the tree under Dir stays as it was, and every directory removed and every
\* fetch destination lies inside OutDir.
C4_OriginalUntouched == (pc # "stage" /\ OutDir # Dir) => C4_Framed

\* C4 (amended): the same, whenever neither of Dir and OutDir is the other or
\* lies inside it.
C4_OriginalUntouchedDisjoint == (pc # "stage" /\ ~Nested(Dir, OutDir)) => C4_Framed

C4_Witness ==
    /\ Success
    /\ ~Nested(Dir, OutDir)
    /\ Cardinality(Fetched) >= 2
    /\ TreeAt(fs, Dir) = TreeAt(orig, Dir)
    /\ TreeAt(fs, OutDir) # TreeAt(staged, OutDir)

-----------------------------------------------------------------------------
(* C5 *)

\* normalize(url) and normalize(dir) as the claim words them
ClaimNormalizeURL(url) ==
    IF HasSuffix(url, ".git") THEN url
    ELSE (IF HasSuffix(url, "/") THEN SubSeq(url, 1, Len(url) - 1) ELSE url) \o ".git"

ClaimNormalizeDir(dir) ==
    IF HasPrefix(dir, "/") THEN dir ELSE "/" \o dir

ClaimExpression(data) ==
    ClaimNormalizeURL(data.repo.v) \o ClaimNormalizeDir(data.directory.v) \o "@" \o data.commit.v

\* what precedes the directory, "@" and the commit in an expression
URLPart(expression, data) ==
    SubSeq(expression, 1,
           Len(expression) - Len(data.commit.v) - 1 - Len(ClaimNormalizeDir(data.directory.v)))

\* C5: for every manifest with all three fields non-empty, the expression
\* handed to the fetch is normalize(url) + normalize(dir) + "@" + commit; its
\* URL part ends with ".git"; normalizing a normalized url or dir changes
\* nothing.
C5_Expression ==
    \A i \in Events("manifest") :
        log[i].ok =>
            LET data == log[i].data
                e == log[i].req.expression
            IN  /\ e = ClaimExpression(data)
                /\ log[i].req.args[3] = e
                /\ HasSuffix(URLPart(e, data), ".git")
                /\ NormalizeURL(URLPart(e, data)) = URLPart(e, data)
                /\ NormalizeDir(NormalizeDir(data.directory.v)) = NormalizeDir(data.directory.v)

\* a URL with a trailing separator and no suffix, a directory with no leading
\* separator, fetched
C5_Witness ==
    \E i \in Events("fetch") :
        \E m \in Events("manifest") :
            /\ log[m].req = log[i].req
            /\ log[m].data.repo.v = RepoURL \o "/"
            /\ log[m].data.directory.v = "pkg"
            /\ log[i].req.expression = "https://example.com/repo.git/pkg@v1.2.3"

-----------------------------------------------------------------------------
(* C6 *)

Fields == {"repo", "directory", "commit"}

\* absent or empty
Missing(data, field) == NestedString(data, field) = <<"", FALSE>>

FieldError(field) ==
    IF field = "repo" THEN "no git URL"
    ELSE IF field = "directory" THEN "no git directory"
    ELSE "no git version"

\* the callback is about to handle a Kptfile that parses and lacks a field
AtIncomplete ==
    /\ IsManifest
    /\ fs[filename].data.yaml
    /\ \E f \in Fields : Missing(fs[filename].data, f)

\* C6: a manifest with a field absent or empty makes Run return an error
\* naming a missing field (the field itself when it is the only one that is
\* not a non-empty string) with no os.RemoveAll and no fetch for it: the file
\* system is left exactly as it was.
C6_CheckBeforeDestroy ==
    [][AtIncomplete =>
         /\ pc' = "done"
         /\ err' # ""
         /\ \A f \in Fields :
              (/\ Missing(fs[filename].data, f)
               /\ \A g \in Fields \ {f} : NestedString(fs[filename].data, g)[1] # "")
              => err' = FieldError(f)
         /\ fs' = fs
         /\ Calls' = Calls]_vars

\* Run has returned "no git directory" after recreating another package
C6_Witness ==
    /\ Failed
    /\ err = "no git directory"
    /\ Fetched # {}
    /\ log[Len(log)].ev = "manifest"
    /\ Missing(log[Len(log)].data, "directory")
    /\ Untouched(DirOf(log[Len(log)].path))

-----------------------------------------------------------------------------
(* C7 *)

\* C7: a failed step (a Kptfile that cannot be parsed or lacks a field, a
\* failed os.RemoveAll, a failed fetch) is the last thing Run
\* does: Run has returned an error and no RemoveAll or fetch follows it.
C7_AbortAtFirstFault ==
    \A i \in 1..Len(log) :
        (log[i].ev # "stat" /\ ~log[i].ok) => (i = Len(log) /\ Failed)

\* a fetch failed after another package was recreated and with a package
\* still to come, which stays untouched
C7_Witness ==
    /\ Failed
    /\ Fetched # {}
    /\ log[Len(log)].ev = "fetch"
    /\ ~log[Len(log)].ok
    /\ \E p \in Unprocessed : Untouched(DirOf(p))

-----------------------------------------------------------------------------
(* C8, C9 *)

\* C8 (as claimed): Run never returns success after an lstat of the walk
\* failed.
C8_WalkErrorsFatal == Success => Events("stat") = {}

\* C9 (as claimed): when Run succeeds, the manifests processed are exactly the
\* regular files named Kptfile of the staged tree.
C9_DiscoveryExact == Success => ProcessedPaths = StagedManifests

-----------------------------------------------------------------------------
(* C10 *)

\* the os.RemoveAll and CommandRunner calls, in order
ops == SelectSeq(log, LAMBDA e : e.ev \in {"remove", "fetch"})

FetchesOf(m) == {i \in Events("fetch") : log[i].req.path = log[m].path}

\* C10: every fetch comes right after the successful removal of the same
\* manifest's directory and every removal is followed by that fetch; a
\* processed manifest gets at most one fetch, and exactly one when Run
\* succeeds; the command is kpt pkg get <expression> <rel> run in the staged
\* root, rel being the manifest's directory relative to that root.
C10_StepOrder ==
    /\ \A i \in 1..Len(ops) :
         /\ ops[i].ev = "fetch" =>
              /\ i > 1
              /\ ops[i - 1].ev = "remove"
              /\ ops[i - 1].ok
              /\ ops[i - 1].req = ops[i].req
         /\ (ops[i].ev = "remove" /\ i < Len(ops)) =>
              /\ ops[i + 1].ev = "fetch"
              /\ ops[i + 1].req = ops[i].req
    /\ \A m \in Events("manifest") :
         /\ Cardinality(FetchesOf(m)) <= 1
         /\ Success => Cardinality(FetchesOf(m)) = 1
         /\ log[m].ok =>
              LET r == log[m].req
              IN  /\ r.name = "kpt"
                  /\ r.args = <<"pkg", "get", ClaimExpression(log[m].data), r.rel>>
                  /\ r.cdir = OutDir
                  /\ r.kptDir = DirOf(log[m].path)
                  /\ IF r.kptDir = OutDir THEN r.rel = "."
                     ELSE OutDir \o "/" \o r.rel = r.kptDir
    /\ \A i \in Calls : \E m \in Events("manifest") : log[m].ok /\ log[m].req = log[i].req

\* the example: b/Kptfile with repo https://example.com/repo, directory /pkg,
\* commit v1.2.3: b is removed, then the expression is fetched into b
C10_Witness ==
    /\ Len(ops) >= 4
    /\ \E i \in 1..(Len(ops) - 1) :
         /\ ops[i].ev = "remove" /\ ops[i].path = "/out/b"
         /\ ops[i + 1].ev = "fetch" /\ ops[i + 1].ok
         /\ ops[i + 1].req.path = "/out/b/Kptfile"
         /\ ops[i + 1].req.args = <<"pkg", "get", "https://example.com/repo.git/pkg@v1.2.3", "b">>
         /\ ops[i + 1].req.cdir = "/out"

-----------------------------------------------------------------------------
(* C11 *)

\* the event that starts the second invocation
Mark == CHOOSE i \in 1..Len(log) : log[i].ev = "run"

Rerunning == \E i \in 1..Len(log) : log[i].ev = "run"

\* an os.RemoveAll or CommandRunner call as the directory relative to the
\* root of its run, the expression and the outcome
OpOf(e) == [ev |-> e.ev, rel |-> e.req.rel, expression |-> e.req.expression, ok |-> e.ok]

OpsOf(l) ==
    LET c == SelectSeq(l, LAMBDA e : e.ev \in {"remove", "fetch"})
    IN  [i \in 1..Len(c) |-> OpOf(c[i])]

FirstOps == OpsOf(SubSeq(log, 1, Mark - 1))
SecondOps == OpsOf(SubSeq(log, Mark + 1, Len(log)))

\* the second run did what the first did and left the tree it was given
Same ==
    /\ FirstOps = SecondOps
    /\ TreeAt(fs, OutDir) = TreeAt(orig, Dir)

\* no manifest the first run processed lies inside the directory of another
FirstFlat ==
    \A i, j \in {m \in Events("manifest") : m < Mark} :
        i # j => ~Nested(DirOf(log[i].path), DirOf(log[j].path))

\* C11 (as claimed): a second run, on the tree a first successful run
\* produced, makes the same os.RemoveAll and fetch calls in the same order
\* and leaves the same tree.
C11_Idempotent == (Rerunning /\ Success) => Same

\* C11 (amended): the same, when no manifest the first run processed lies
\* inside the directory of another and the tree it produced holds no
\* manifest inside the directory of another.
C11_IdempotentFlat == (Rerunning /\ Success /\ FirstFlat /\ Flat) => Same

\* two packages recreated by both runs
C11_Witness ==
    /\ Rerunning
    /\ Success
    /\ FirstFlat
    /\ Flat
    /\ Len(FirstOps) >= 4
    /\ Len(SecondOps) >= 4
    /\ Same

-----------------------------------------------------------------------------
(* C12 *)

\* the staged manifests, other than its own, inside the directory that the
\* i-th event removed
ChildrenOf(i) ==
    {p \in StagedManifests : p # log[i].req.path /\ Within(log[i].path, DirOf(p))}

\* C12 (as claimed): no manifest is processed that the staged tree did not
\* hold right after the copy (a Kptfile that only a fetch brought in is not
\* discovered); when Run succeeds, a staged manifest inside a directory that
\* a parent's recreation removed has been processed after that removal, and
\* every staged manifest has been processed.
C12_RunOncePerDiscovery ==
    /\ ProcessedPaths \subseteq StagedManifests
    /\ Success =>
         /\ \A i \in Events("remove") : \A p \in ChildrenOf(i) :
                \E m \in Events("manifest") : m > i /\ log[m].path = p
         /\ StagedManifests \subseteq ProcessedPaths

-----------------------------------------------------------------------------
(* C13 *)

\* directory a strictly contains directory b
Ancestor(a, b) == a # b /\ Within(a, b)

\* C13 (as claimed): of two processed manifests, the one whose directory
\* strictly contains the other's is processed first.
C13_ParentFirst ==
    \A i, j \in Events("manifest") :
        Ancestor(DirOf(log[i].path), DirOf(log[j].path)) => i < j

-----------------------------------------------------------------------------
(* C14 *)

FieldOrder == <<"repo", "directory", "commit">>

\* the first field, in the order of the checks, that is absent or empty
FirstMissing(data) ==
    FieldOrder[CHOOSE i \in 1..3 :
                  /\ Missing(data, FieldOrder[i])
                  /\ \A j \in 1..(i - 1) : ~Missing(data, FieldOrder[j])]

\* the Kptfile parses and each of its three fields is a string or absent
Checkable(data) ==
    data.yaml /\ \A f \in Fields : ~NestedString(data, f)[2]

\* a manifest that lacks the field f only
Lacking(f) ==
    [Manifest(Str("r"), Str("pkg"), Str("v1")) EXCEPT ![f] = Absent]

\* C14: the three fields are checked in the order repo, directory, commit and
\* each has its own error: a manifest with fields absent or empty makes Run
\* return the error of the first such field in that order (of the field
\* itself when it is the only one), and a manifest with none is accepted.
C14_FieldErrors ==
    /\ \A f, g \in Fields :
         /\ CheckManifest(Lacking(f)) # ""
         /\ f # g => CheckManifest(Lacking(f)) # CheckManifest(Lacking(g))
    /\ \A m \in Events("manifest") :
         Checkable(log[m].data) =>
            IF \E f \in Fields : Missing(log[m].data, f)
            THEN /\ log[m].err = FieldError(FirstMissing(log[m].data))
                 /\ log[m].err = CheckManifest(Lacking(FirstMissing(log[m].data)))
                 /\ Failed
                 /\ err = log[m].err
            ELSE log[m].ok

\* Run has returned "no git directory" for a Kptfile that has a repo and
\* lacks both directory and commit
C14_Witness ==
    /\ Failed
    /\ err = "no git directory"
    /\ log # <<>>
    /\ log[Len(log)].ev = "manifest"
    /\ ~Missing(log[Len(log)].data, "repo")
    /\ Missing(log[Len(log)].data, "directory")
    /\ Missing(log[Len(log)].data, "commit")

-----------------------------------------------------------------------------
(* C15 *)

\* C15 (as claimed): every directory given to os.RemoveAll lies strictly
\* below the staged root, and the working directory of a fetch exists when
\* the command is run.
C15_RootKept ==
    /\ \A i \in Events("remove") : Ancestor(WalkDir, log[i].path)
    /\ pc = "fetch" => req.cdir \in DOMAIN fs

-----------------------------------------------------------------------------
(* C16 *)

\* C16 (as claimed): Run returns after finitely many steps: the walk does not
\* keep descending, it is never MaxDepth directories deep.
C16_Terminates == \A k \in 1..Len(stack) : Depth(stack[k].path) < MaxDepth

=============================================================================
